---------------------------- MODULE Spec2Model ----------------------------
(***************************************************************************)
(* Model of bobi/sensors-monitor: the sensor-classification pipeline       *)
(* (configuration lookup, chip ordering, parse_sensors_json, presentation  *)
(* rules, table building) of the two copies of the program kept in the     *)
(* repository:                                                             *)
(*     "sm"     : src/pylmsensonrs/sm.py        (the packaged module)      *)
(*     "script" : src/src/sensors-monitor.py    (the stand-alone script)   *)
(*                                                                         *)
(* Strings are sequences of tokens: a token stands for a run of characters *)
(* that the program never looks inside ("coretemp", "-", "_input", ",").   *)
(* str.startswith / str.endswith / str.split and the anchored regular      *)
(* expressions of chip_sort_order are then prefix, suffix and split on     *)
(* token sequences.  Python's None is the empty tuple and a present value  *)
(* v is the one-element tuple <<v>>.  A dict is the list of its            *)
(* <<key, value>> pairs in insertion order.                                *)
(*                                                                         *)
(* Numbers are integers; the float products high * .8 and high * .6 are    *)
(* compared exactly (10 * temp >= 8 * high), which is what the float       *)
(* comparison gives on the integers used here.  sys.maxsize is             *)
(* 2^(WordBits-1) - 1 for a word of WordBits bits, and the readings reach  *)
(* past it on both sides.                                                  *)
(*                                                                         *)
(* Two specifications: Spec is one run of monitor_sensors(live=False) that  *)
(* no signal interrupts, over the full set of inputs; LiveSpec is a run in *)
(* either mode, with the loop of live mode, the signal handler and the     *)
(* lock inside threading.Event, over a small set of inputs that may change *)
(* from one poll cycle to the next.                                        *)
(*                                                                         *)
(* Not modelled: the DEFAULT section and the lower-casing of option names  *)
(* by configparser (all option names here are lower case), the int and     *)
(* float value types of get_config_value (used by run() only) and the      *)
(* layout regions around the tables.  The formatted texts f"{temp} C",     *)
(* f"{voltage:.2f}V" and f"{speed} RPM" are the number with its unit.      *)
(***************************************************************************)
EXTENDS Integers, Sequences, FiniteSets, TLC

VARIABLES impl, config, tool_output, pc, sensors_json, sensors_data,
          tables, printed, exit_code,
          live,          \* options.live
          running,       \* the flag of the Event "running"
          event_lock,    \* the main thread holds the lock inside the Event
          signalled,     \* a termination signal has been delivered
          live_display,  \* the Live context: "stopped" or "started"
          display,       \* what the live display shows
          cycle,         \* acquisitions begun
          renders,       \* snapshots rendered
          logged         \* the error console.log has reported

vars == <<impl, config, tool_output, pc, sensors_json, sensors_data,
          tables, printed, exit_code, live, running, event_lock, signalled,
          live_display, display, cycle, renders, logged>>

(***************************************************************************)
(* Bounds of the model.                                                    *)
(***************************************************************************)
\* chips in one raw tree built from the sample boards
MaxChips == 2
\* raw fields in one field group of the single-sensor trees
MaxFields == 5
\* width of the machine word: sys.maxsize = 2^(WordBits-1) - 1
\* (a 64-bit word in CPython on a 64-bit build, a narrow one here)
WordBits == 6
\* poll cycles of one run in live mode
MaxCycles == 2

(***************************************************************************)
(* Python values.                                                          *)
(***************************************************************************)
None == <<>>

Some(v) == <<v>>

IsNone(o) == o = <<>>

Get(o) == o[1]

\* sys.maxsize
maxsize == 2 ^ (WordBits - 1) - 1

\* str.startswith
StartsWith(s, p) == Len(s) >= Len(p) /\ SubSeq(s, 1, Len(p)) = p

\* str.endswith
EndsWith(s, p) == Len(s) >= Len(p) /\ SubSeq(s, Len(s) - Len(p) + 1, Len(s)) = p

\* str.split(","): the pieces between the commas; "".split(",") is [""]
RECURSIVE split(_)
split(s) ==
    IF \A i \in 1..Len(s) : s[i] # ","
    THEN <<s>>
    ELSE LET i == CHOOSE k \in 1..Len(s) :
                      s[k] = "," /\ \A j \in 1..(k - 1) : s[j] # ","
         IN  <<SubSeq(s, 1, i - 1)>> \o split(SubSeq(s, i + 1, Len(s)))

\* x in list
Contains(list, x) == \E i \in 1..Len(list) : list[i] = x

\* JSON values of the raw tree
Dict(items) == [type |-> "dict", items |-> items]

Str(s) == [type |-> "str", s |-> s]

Num(n) == [type |-> "num", n |-> n]

\* f"{value}" of a JSON value
Format(v) ==
    CASE v.type = "str" -> v.s
      [] v.type = "num" -> <<v.n>>
      [] OTHER          -> <<"{...}">>

\* key in dict, dict[key] on an insertion-ordered list of <<key, value>>
HasKey(items, k) == \E i \in 1..Len(items) : items[i][1] = k

Lookup(items, k) == items[CHOOSE i \in 1..Len(items) : items[i][1] = k][2]

ADAPTER_PROP == <<"Adapter">>

(***************************************************************************)
(* Configuration: a set of <<section, key, value>> entries, at most one    *)
(* per section and key, as read once by load_config.                       *)
(***************************************************************************)
HasSection(cfg, section) == \E e \in cfg : e[1] = section

HasOption(cfg, section, key) == \E e \in cfg : e[1] = section /\ e[2] = key

Option(cfg, section, key) ==
    (CHOOSE e \in cfg : e[1] = section /\ e[2] = key)[3]

\* RawConfigParser.BOOLEAN_STATES, as used by getboolean
BooleanTrue == {<<"1">>, <<"yes">>, <<"true">>, <<"on">>}

BooleanFalse == {<<"0">>, <<"no">>, <<"false">>, <<"off">>}

\* getboolean raises ValueError on any other text
NotABoolean(text) == text \notin (BooleanTrue \cup BooleanFalse)

getboolean(text) == text \in BooleanTrue

\* the test of get_config_value that the section and the key exist; sm.py
\* also wants both non-empty ("section and key"), the script, which has
\* the lookups inline, tests membership alone
Configured(im, cfg, section, key) ==
    /\ (im = "sm" => (section # <<>> /\ key # <<>>))
    /\ HasSection(cfg, section)
    /\ HasOption(cfg, section, key)

\* get_config_value raises the ValueError of getboolean
get_config_value_raises(im, cfg, section, key, value_type) ==
    /\ Configured(im, cfg, section, key)
    /\ value_type = "bool"
    /\ NotABoolean(Option(cfg, section, key))

\* get_config_value for the value types str and bool
get_config_value(im, cfg, section, key, value_type, default_value) ==
    IF Configured(im, cfg, section, key)
    THEN IF value_type = "bool"
         THEN getboolean(Option(cfg, section, key))
         ELSE Option(cfg, section, key)
    ELSE default_value

get_custom_sensor_label(im, cfg, chip_id, sensor_id) ==
    get_config_value(im, cfg, chip_id, sensor_id, "str", sensor_id)

get_custom_chip_label(im, cfg, chip_id) ==
    get_config_value(im, cfg, chip_id, <<"label">>, "str", chip_id)

\* the "visible" option is never consulted
chip_always_visible(im, cfg, chip_id) == TRUE

is_chip_visible(im, cfg, chip_id) ==
    get_config_value(im, cfg, chip_id, <<"visible">>, "bool", TRUE)

\* the option both copies read for the hidden list
HIDDEN_KEY == <<"hidden_sensoers">>

is_sensoer_visible(im, cfg, chip_id, sensor_id) ==
    IF im = "sm"
    THEN ~Contains(split(get_config_value(im, cfg, chip_id, HIDDEN_KEY, "str", <<>>)),
                   sensor_id)
    ELSE IF HasSection(cfg, chip_id) /\ HasOption(cfg, chip_id, HIDDEN_KEY)
         THEN ~Contains(split(Option(cfg, chip_id, HIDDEN_KEY)), sensor_id)
         ELSE TRUE

(***************************************************************************)
(* Chip ordering.                                                          *)
(***************************************************************************)
\* the rule table in insertion order: <<anchored prefix, rank>>
chip_sort_order(im) ==
    IF im = "sm"
    THEN << <<<<"coretemp", "-">>, 1>>,
            <<<<"drivetemp", "-">>, 2>>,
            <<<<"acpitz", "-">>, 3>> >>
    ELSE << <<<<"coretemp", "-">>, 1>>,
            <<<<"drivetemp", "-">>, 2>>,
            <<<<"nvme", "-">>, 3>>,
            <<<<"acpitz", "-">>, 4>> >>

get_chip_order(im, chip_id) ==
    LET rules == chip_sort_order(im)
        hits  == {i \in 1..Len(rules) : StartsWith(chip_id, rules[i][1])}
    IN  IF hits = {} THEN maxsize - 1
        ELSE rules[CHOOSE i \in hits : \A j \in hits : i <= j][2]

(***************************************************************************)
(* Sensor records.  Sensoer.__init__ resolves the labels and the rank.     *)
(***************************************************************************)
Sensoer(im, cfg, chip_id, sensor_id, adapter) ==
    [chip_id            |-> chip_id,
     sensor_id          |-> sensor_id,
     default_chip_label |-> adapter,
     chip_label         |-> get_custom_chip_label(im, cfg, chip_id),
     sensor_label       |-> get_custom_sensor_label(im, cfg, chip_id, sensor_id),
     chip_order         |-> get_chip_order(im, chip_id)]

FanSpeed(im, cfg, chip_id, sensor_id, adapter) ==
    [base |-> Sensoer(im, cfg, chip_id, sensor_id, adapter),
     value |-> None, min |-> None]

Voltage(im, cfg, chip_id, sensor_id, adapter) ==
    [base |-> Sensoer(im, cfg, chip_id, sensor_id, adapter),
     value |-> None, min |-> None, max |-> None]

Temp(im, cfg, chip_id, sensor_id, adapter) ==
    [base |-> Sensoer(im, cfg, chip_id, sensor_id, adapter),
     value |-> None, high |-> None, critical |-> None]

HddTemp(im, cfg, chip_id, sensor_id, adapter) ==
    [base |-> Sensoer(im, cfg, chip_id, sensor_id, adapter),
     value |-> None, high |-> None, critical |-> None,
     lowest |-> None, highest |-> None]

(***************************************************************************)
(* parse_sensors_json.                                                     *)
(***************************************************************************)
\* a new record for every field, the entry under key never reused
AlwaysInsert(d, key, new, slot, value) ==
    Append(d, <<key, [new EXCEPT ![slot] = Some(value)]>>)

\* dict.setdefault(key, new) followed by the assignment of one attribute:
\* the entry under key is reused when there is one, else new is inserted
setdefault_assign(d, key, new, slot, value) ==
    IF HasKey(d, key)
    THEN [i \in 1..Len(d) |->
             IF d[i][1] = key
             THEN <<key, [d[i][2] EXCEPT ![slot] = Some(value)]>>
             ELSE d[i]]
    ELSE Append(d, <<key, [new EXCEPT ![slot] = Some(value)]>>)

\* [*d.values()]
values(d) == [i \in 1..Len(d) |-> d[i][2]]

\* the test that sends temp* fields to the drive table
is_drive_chip(im, chip_id) ==
    \/ StartsWith(chip_id, <<"drivetemp">>)
    \/ (im = "sm" /\ StartsWith(chip_id, <<"nvme">>))

\* _max and _crit stored in each other's attribute
SwappedHddSlot(name) ==
    CASE EndsWith(name, <<"_input">>)   -> Some("value")
      [] EndsWith(name, <<"_max">>)     -> Some("critical")
      [] EndsWith(name, <<"_crit">>)    -> Some("high")
      [] EndsWith(name, <<"_lowest">>)  -> Some("lowest")
      [] EndsWith(name, <<"_highest">>) -> Some("highest")
      [] OTHER                          -> None

\* the attribute a drive-temperature field is stored in, by its suffix
hdd_temp_slot(name) ==
    CASE EndsWith(name, <<"_input">>)   -> Some("value")
      [] EndsWith(name, <<"_max">>)     -> Some("high")
      [] EndsWith(name, <<"_crit">>)    -> Some("critical")
      [] EndsWith(name, <<"_lowest">>)  -> Some("lowest")
      [] EndsWith(name, <<"_highest">>) -> Some("highest")
      [] OTHER                          -> None

temp_slot(name) ==
    CASE EndsWith(name, <<"_input">>) -> Some("value")
      [] EndsWith(name, <<"_max">>)   -> Some("high")
      [] EndsWith(name, <<"_crit">>)  -> Some("critical")
      [] OTHER                        -> None

fan_slot(name) ==
    CASE EndsWith(name, <<"_input">>) -> Some("value")
      [] EndsWith(name, <<"_min">>)   -> Some("min")
      [] OTHER                        -> None

volt_slot(name) ==
    CASE EndsWith(name, <<"_input">>) -> Some("value")
      [] EndsWith(name, <<"_min">>)   -> Some("min")
      [] EndsWith(name, <<"_max">>)   -> Some("max")
      [] OTHER                        -> None

\* the four per-sensor dictionaries before the first field
EmptyDicts == [temps |-> <<>>, hdd_temps |-> <<>>, volts |-> <<>>, fans |-> <<>>]

\* one iteration of "for name, value in sensoer_values.items()"
parse_field(im, cfg, chip_id, adapter, sensor_id, d, name, value) ==
    IF StartsWith(name, <<"temp">>)
    THEN IF is_drive_chip(im, chip_id)
         THEN IF IsNone(hdd_temp_slot(name)) THEN d
              ELSE [d EXCEPT !.hdd_temps =
                      setdefault_assign(@, sensor_id,
                          HddTemp(im, cfg, chip_id, sensor_id, adapter),
                          Get(hdd_temp_slot(name)), value)]
         ELSE IF IsNone(temp_slot(name)) THEN d
              ELSE [d EXCEPT !.temps =
                      setdefault_assign(@, sensor_id,
                          Temp(im, cfg, chip_id, sensor_id, adapter),
                          Get(temp_slot(name)), value)]
    ELSE IF StartsWith(name, <<"fan">>)
    THEN IF IsNone(fan_slot(name)) THEN d
         ELSE [d EXCEPT !.fans =
                 setdefault_assign(@, sensor_id,
                     FanSpeed(im, cfg, chip_id, sensor_id, adapter),
                     Get(fan_slot(name)), value)]
    ELSE IF StartsWith(name, <<"in">>)
    THEN IF IsNone(volt_slot(name)) THEN d
         ELSE [d EXCEPT !.volts =
                 setdefault_assign(@, sensor_id,
                     Voltage(im, cfg, chip_id, sensor_id, adapter),
                     Get(volt_slot(name)), value)]
    ELSE d

\* the field loop over the first n fields of one field group
RECURSIVE parse_fields(_, _, _, _, _, _, _)
parse_fields(im, cfg, chip_id, adapter, sensor_id, fields, n) ==
    IF n = 0 THEN EmptyDicts
    ELSE parse_field(im, cfg, chip_id, adapter, sensor_id,
                     parse_fields(im, cfg, chip_id, adapter, sensor_id, fields, n - 1),
                     fields[n][1], fields[n][2])

\* the four lists shared by every snapshot (attributes of the class, not
\* of the instance): the records of the snapshot before stay in them
SensorsDataShared(raw_data) ==
    IF IsNone(sensors_data)
    THEN [raw_data |-> raw_data, volts |-> <<>>, temps |-> <<>>,
          hdd_temps |-> <<>>, fans |-> <<>>]
    ELSE [Get(sensors_data) EXCEPT !.raw_data = raw_data]

\* the snapshot before the first chip: SensorsData.__init__
SensorsData(raw_data) ==
    [raw_data |-> raw_data, volts |-> <<>>, temps |-> <<>>,
     hdd_temps |-> <<>>, fans |-> <<>>]

\* one iteration of "for sensor_id, sensoer_values in chip_data.items()"
parse_sensor(im, cfg, chip_id, adapter, output, sensor_id, sensoer_values) ==
    IF sensoer_values.type # "dict" \/ ~is_sensoer_visible(im, cfg, chip_id, sensor_id)
    THEN output
    ELSE LET d == parse_fields(im, cfg, chip_id, adapter, sensor_id,
                               sensoer_values.items, Len(sensoer_values.items))
         IN  [output EXCEPT !.temps     = @ \o values(d.temps),
                            !.hdd_temps = @ \o values(d.hdd_temps),
                            !.volts     = @ \o values(d.volts),
                            !.fans      = @ \o values(d.fans)]

RECURSIVE parse_sensors(_, _, _, _, _, _, _)
parse_sensors(im, cfg, chip_id, adapter, output, items, n) ==
    IF n = 0 THEN output
    ELSE parse_sensor(im, cfg, chip_id, adapter,
                      parse_sensors(im, cfg, chip_id, adapter, output, items, n - 1),
                      items[n][1], items[n][2])

\* the Adapter entry never read: every record without its text
parse_chip_no_adapter(im, cfg, output, chip_id, chip_data) ==
    IF ~is_chip_visible(im, cfg, chip_id)
    THEN output
    ELSE parse_sensors(im, cfg, chip_id, None, output,
                       chip_data.items, Len(chip_data.items))

\* one iteration of "for chip_id, chip_data in sensors_json.items()"
parse_chip(im, cfg, output, chip_id, chip_data) ==
    IF ~is_chip_visible(im, cfg, chip_id)
    THEN output
    ELSE LET adapter == IF HasKey(chip_data.items, ADAPTER_PROP)
                        THEN Some(Format(Lookup(chip_data.items, ADAPTER_PROP)))
                        ELSE None
         IN  parse_sensors(im, cfg, chip_id, adapter, output,
                           chip_data.items, Len(chip_data.items))

\* "break" in place of "continue": the walk stops at the first hidden chip
RECURSIVE parse_chips_break(_, _, _, _)
parse_chips_break(im, cfg, raw, n) ==
    IF n = 0 THEN SensorsData(raw)
    ELSE IF \E k \in 1..n : ~is_chip_visible(im, cfg, raw.items[k][1])
         THEN parse_chips_break(im, cfg, raw, n - 1)
         ELSE parse_chip(im, cfg, parse_chips_break(im, cfg, raw, n - 1),
                         raw.items[n][1], raw.items[n][2])

RECURSIVE parse_chips(_, _, _, _)
parse_chips(im, cfg, raw, n) ==
    IF n = 0 THEN SensorsData(raw)
    ELSE parse_chip(im, cfg, parse_chips(im, cfg, raw, n - 1),
                    raw.items[n][1], raw.items[n][2])

\* the key of the sort taken from the reading, not from the chip
RECURSIVE insert_by_value(_, _)
insert_by_value(list, item) ==
    IF list = <<>> THEN <<item>>
    ELSE IF IsNone(list[Len(list)].value) \/ IsNone(item.value)
              \/ Get(list[Len(list)].value) <= Get(item.value)
         THEN Append(list, item)
         ELSE Append(insert_by_value(SubSeq(list, 1, Len(list) - 1), item),
                     list[Len(list)])

\* sorted(list, key=lambda item: item.chip_order): a stable sort, each item
\* inserted behind the items whose key is not greater
RECURSIVE insert_sorted(_, _)
insert_sorted(list, item) ==
    IF list = <<>> THEN <<item>>
    ELSE IF list[Len(list)].base.chip_order <= item.base.chip_order
         THEN Append(list, item)
         ELSE Append(insert_sorted(SubSeq(list, 1, Len(list) - 1), item),
                     list[Len(list)])

RECURSIVE sort_prefix(_, _)
sort_prefix(list, n) ==
    IF n = 0 THEN <<>> ELSE insert_sorted(sort_prefix(list, n - 1), list[n])

reverse(list) == [i \in 1..Len(list) |-> list[Len(list) + 1 - i]]

\* an ascending sort that is not stable: equal keys come out reversed
sorted_unstable(list) == sort_prefix(reverse(list), Len(list))

sorted(list) == sort_prefix(list, Len(list))

\* the chip whose "visible" text makes is_chip_visible raise ValueError
parse_raises(im, cfg, raw) ==
    \E i \in 1..Len(raw.items) :
        get_config_value_raises(im, cfg, raw.items[i][1], <<"visible">>, "bool")

classify(im, cfg, raw) == parse_chips(im, cfg, raw, Len(raw.items))

parse_sensors_json(im, cfg, raw) ==
    LET output == classify(im, cfg, raw)
    IN  [output EXCEPT !.temps     = sorted(@),
                       !.hdd_temps = sorted(@),
                       !.volts     = sorted(@),
                       !.fans      = sorted(@)]

(***************************************************************************)
(* Presentation rules and table building.                                  *)
(***************************************************************************)
\* rich.text.Text(plain, style)
Text(plain, style) == [plain |-> plain, style |-> style]

EmptyText == Text(<<>>, "")

\* str(s) of a present value, "" of None
default_str_if_none(s) == IF IsNone(s) THEN <<>> ELSE <<"str", Get(s)>>

get_colored_temp(temp, high) ==
    IF IsNone(temp) THEN EmptyText
    ELSE LET t == Get(temp)
             h == IF IsNone(high) THEN maxsize ELSE Get(high)
         IN  IF 10 * t >= 8 * h THEN Text(<<t, "C">>, "bold red")
             ELSE IF 10 * t >= 6 * h THEN Text(<<t, "C">>, "yellow")
             ELSE Text(<<t, "C">>, "green")

get_colored_fan(speed) ==
    IF IsNone(speed) THEN EmptyText ELSE Text(<<Get(speed), "RPM">>, "green")

get_colored_voltage(voltage, min_voltage, max_voltage) ==
    IF IsNone(voltage) THEN EmptyText
    ELSE LET v  == Get(voltage)
             lo == IF IsNone(min_voltage) THEN -maxsize - 1 ELSE Get(min_voltage)
             hi == IF IsNone(max_voltage) THEN maxsize ELSE Get(max_voltage)
         IN  IF v < lo THEN Text(<<v, "V">>, "yellow")
             ELSE IF v > hi THEN Text(<<v, "V">>, "red")
             ELSE Text(<<v, "V">>, "green")

\* f"{sensor_value.chip_label} {sensor_value.sensor_label}"
row_label(rec) == rec.base.chip_label \o <<" ">> \o rec.base.sensor_label

\* table.add_section() when the chip changes, then table.add_row(...)
Section == [kind |-> "section"]

Row(rec, cells) == [kind |-> "row", chip_id |-> rec.base.chip_id, cells |-> cells]

sections_before(list, n) ==
    IF n > 1 /\ list[n - 1].base.chip_id # list[n].base.chip_id
    THEN <<Section>> ELSE <<>>

temp_row(rec) ==
    Row(rec, <<row_label(rec), get_colored_temp(rec.value, rec.high),
               default_str_if_none(rec.high), default_str_if_none(rec.critical)>>)

hdd_temp_row(rec) ==
    Row(rec, <<row_label(rec), get_colored_temp(rec.value, rec.high),
               default_str_if_none(rec.high), default_str_if_none(rec.critical),
               default_str_if_none(rec.lowest), default_str_if_none(rec.highest)>>)

voltage_row(rec) ==
    Row(rec, <<row_label(rec), get_colored_voltage(rec.value, rec.min, rec.max),
               default_str_if_none(rec.min), default_str_if_none(rec.max)>>)

fan_row(rec) ==
    Row(rec, <<row_label(rec), get_colored_fan(rec.value),
               default_str_if_none(rec.min)>>)

RECURSIVE temp_rows(_, _)
temp_rows(temps, n) ==
    IF n = 0 THEN <<>>
    ELSE temp_rows(temps, n - 1) \o sections_before(temps, n) \o <<temp_row(temps[n])>>

RECURSIVE hdd_temp_rows(_, _)
hdd_temp_rows(temps, n) ==
    IF n = 0 THEN <<>>
    ELSE Append(hdd_temp_rows(temps, n - 1), hdd_temp_row(temps[n]))

RECURSIVE voltage_rows(_, _)
voltage_rows(voltages, n) ==
    IF n = 0 THEN <<>>
    ELSE voltage_rows(voltages, n - 1) \o sections_before(voltages, n)
             \o <<voltage_row(voltages[n])>>

RECURSIVE fan_rows(_, _)
fan_rows(fans, n) ==
    IF n = 0 THEN <<>>
    ELSE fan_rows(fans, n - 1) \o sections_before(fans, n) \o <<fan_row(fans[n])>>

\* each builder returns None for an empty list, else the table
build_temp_table(temps) ==
    IF temps = <<>> THEN None ELSE Some(temp_rows(temps, Len(temps)))

build_hdd_temp_table(temps) ==
    IF temps = <<>> THEN None ELSE Some(hdd_temp_rows(temps, Len(temps)))

build_voltage_table(voltages) ==
    IF voltages = <<>> THEN None ELSE Some(voltage_rows(voltages, Len(voltages)))

build_fans_table(fans) ==
    IF fans = <<>> THEN None ELSE Some(fan_rows(fans, Len(fans)))

\* the tables build_sensors_ui puts into the layout
build_tables(data) ==
    [temps     |-> build_temp_table(data.temps),
     hdd_temps |-> build_hdd_temp_table(data.hdd_temps),
     fans      |-> build_fans_table(data.fans),
     volts     |-> build_voltage_table(data.volts)]

(***************************************************************************)
(* Inputs: what the sensors tool prints and what the configuration file    *)
(* holds.                                                                  *)
(***************************************************************************)
Impls == {"sm", "script"}

CoreChip == <<"coretemp", "-", "isa">>

DriveChip == <<"drivetemp", "-", "scsi">>

\* a second drive, met only in the trees of two drives
DriveChip2 == <<"drivetemp", "-", "scsi", "-1">>

NvmeChip == <<"nvme", "-", "pci">>

AcpiChip == <<"acpitz", "-", "acpi">>

NctChip == <<"nct6775", "-", "isa">>

It87Chip == <<"it8728", "-", "isa">>

ChipIds == {CoreChip, DriveChip, NvmeChip, AcpiChip, NctChip, It87Chip}

\* raw field names
Field(prefix, index, suffix) == <<prefix, index, suffix>>

\* a board with adapter text, one temperature, one fan and one voltage
Board1 ==
    Dict(<< <<ADAPTER_PROP, Str(<<"ISA adapter">>)>>,
            <<<<"temp1">>, Dict(<< <<Field("temp", "1", "_input"), 4>>,
                                   <<Field("temp", "1", "_max"), 8>>,
                                   <<Field("temp", "1", "_crit"), 9>> >>)>>,
            <<<<"fan1">>, Dict(<< <<Field("fan", "1", "_input"), 3>>,
                                  <<Field("fan", "1", "_min"), 1>> >>)>>,
            <<<<"in0">>, Dict(<< <<Field("in", "0", "_input"), 3>>,
                                 <<Field("in", "0", "_min"), 2>>,
                                 <<Field("in", "0", "_max"), 5>> >>)>> >>)

\* a board with three fans, a temperature, a numeric entry and a sensor
\* whose id is the empty string
Board2 ==
    Dict(<< <<<<"fan1">>, Dict(<< <<Field("fan", "1", "_input"), 2>> >>)>>,
            <<<<"rev">>, Num(1)>>,
            <<<<"fan2">>, Dict(<< <<Field("fan", "2", "_input"), 3>>,
                                  <<Field("fan", "2", "_alarm"), 0>> >>)>>,
            <<<<"fan3">>, Dict(<< <<Field("fan", "3", "_input"), 4>>,
                                  <<Field("power", "1", "_input"), 7>> >>)>>,
            <<<<"temp1">>, Dict(<< <<Field("temp", "1", "_input"), 3>>,
                                   <<Field("fan", "4", "_input"), 5>> >>)>>,
            <<<<>>, Dict(<< <<Field("fan", "5", "_input"), 6>> >>)>> >>)

Boards == {Board1, Board2}

\* trees of up to MaxChips distinct chips, each carrying one of the boards
BoardTrees ==
    UNION {{Dict(t) : t \in {s \in [1..n -> ChipIds \X Boards] :
                                \A i, j \in 1..n : i # j => s[i][1] # s[j][1]}}
           : n \in 0..MaxChips}

\* the raw fields a single field group is drawn from, with their values
FieldPool ==
    << <<Field("temp", "1", "_input"), 1>>,
       <<Field("temp", "1", "_max"), 2>>,
       <<Field("temp", "1", "_crit"), 3>>,
       <<Field("temp", "1", "_lowest"), 4>>,
       <<Field("temp", "1", "_highest"), 5>>,
       <<Field("temp", "1", "_alarm"), 6>>,
       <<Field("fan", "1", "_input"), 7>>,
       <<Field("in", "0", "_input"), 8>>,
       <<Field("power", "1", "_input"), 9>> >>

\* the fields of the pool whose index is in S, in pool order
RECURSIVE pick(_, _)
pick(S, n) ==
    IF n = 0 THEN <<>>
    ELSE IF n \in S THEN Append(pick(S, n - 1), FieldPool[n]) ELSE pick(S, n - 1)

\* field groups of up to MaxFields fields, in pool order and in reverse
FieldGroups ==
    LET subsets == {S \in SUBSET (1..Len(FieldPool)) : Cardinality(S) <= MaxFields}
    IN  {pick(S, Len(FieldPool)) : S \in subsets}
            \cup {reverse(pick(S, Len(FieldPool))) : S \in subsets}

\* trees of one chip with one sensor
GroupTrees ==
    {Dict(<< <<c, Dict(<< <<<<"temp1">>, Dict(g)>> >>)>> >>) :
        c \in {DriveChip, NctChip}, g \in FieldGroups}

\* trees of two drives
DriveTrees ==
    {Dict(<< <<DriveChip, Board1>>, <<DriveChip2, Board1>> >>),
     Dict(<< <<DriveChip2, Board1>>, <<CoreChip, Board2>>, <<DriveChip, Board1>> >>)}

\* readings and thresholds of the single-reading trees
Readings == (-maxsize - 2)..(maxsize + 1)

Thresholds == {-10, 0, 5, 10}

Opt(S) == {None} \cup {Some(x) : x \in S}

\* the fields present in a group: <<name, optional value>> with None left out
present(fields) ==
    LET keep == {i \in 1..Len(fields) : ~IsNone(fields[i][2])}
        RECURSIVE take(_)
        take(n) == IF n = 0 THEN <<>>
                   ELSE IF n \in keep
                        THEN Append(take(n - 1), <<fields[n][1], Get(fields[n][2])>>)
                        ELSE take(n - 1)
    IN  take(Len(fields))

TempReadingTrees ==
    {Dict(<< <<c, Dict(<< <<<<"temp1">>,
          Dict(present(<< <<Field("temp", "1", "_input"), v>>,
                          <<Field("temp", "1", "_max"), h>>,
                          <<Field("temp", "1", "_crit"), k>> >>))>> >>)>> >>) :
        c \in {DriveChip, NctChip}, v \in Opt(Readings), h \in Opt(Thresholds),
        k \in Opt({0})}

VoltageReadingTrees ==
    {Dict(<< <<NctChip, Dict(<< <<<<"in0">>,
          Dict(present(<< <<Field("in", "0", "_input"), v>>,
                          <<Field("in", "0", "_min"), lo>>,
                          <<Field("in", "0", "_max"), hi>> >>))>> >>)>> >>) :
        v \in Opt(Readings), lo \in Opt(Thresholds), hi \in Opt(Thresholds)}

\* configurations: none, or one option in the section of one chip
EmptyConfig == {}

ConfigChips == {NctChip}

ConfigOptions ==
    {<<<<"visible">>, <<"false">>>>,
     <<<<"visible">>, <<"maybe">>>>,
     <<<<"label">>, <<"board">>>>,
     <<<<"fan3">>, <<"rear fan">>>>,
     <<<<"hidden_sensoers">>, <<"fan1", ",", "fan2">>>>,
     <<<<"hidden_sensoers">>, <<>>>>,
     <<<<"hidden_sensors">>, <<"fan1", ",", "fan2">>>>}

Configs ==
    {EmptyConfig} \cup {{<<c, o[1], o[2]>>} : c \in ConfigChips, o \in ConfigOptions}

\* what the run of "sensors -j" gives
Ok(tree) == [status |-> "ok", stdout |-> tree]

ToolFailures == {[status |-> "FileNotFoundError"],
                 [status |-> "CalledProcessError"],
                 [status |-> "JSONDecodeError"]}

\* a configuration together with a tool result: every configuration with
\* the board trees and the failures, no configuration with the single-sensor
\* trees and the trees of two drives
Inputs ==
    (Configs \X ({Ok(t) : t \in BoardTrees} \cup ToolFailures))
        \cup ({EmptyConfig} \X {Ok(t) : t \in GroupTrees \cup DriveTrees
                                             \cup TempReadingTrees
                                             \cup VoltageReadingTrees})

\* live mode: the configurations and the tool results of a poll cycle
LiveConfigs ==
    {EmptyConfig,
     {<<NctChip, <<"visible">>, <<"maybe">>>>},
     {<<NctChip, <<"hidden_sensoers">>, <<"fan1", ",", "fan2">>>>}}

LiveTrees ==
    {Dict(<< <<NctChip, Board1>> >>),
     Dict(<< <<NctChip, Board2>>, <<CoreChip, Board1>> >>),
     Dict(<< <<DriveChip, Board1>> >>)}

LiveOutputs == {Ok(t) : t \in LiveTrees} \cup ToolFailures

LiveInputs == LiveConfigs \X LiveOutputs

(***************************************************************************)
(* The run of the program: monitor_sensors, build_sensors_ui step by step, *)
(* the loop of live mode and the signal handler.                           *)
(***************************************************************************)
\* the state before the first step, for a mode and an input
Start(modes, inputs, at) ==
    /\ impl \in Impls
    /\ live \in modes
    /\ \E in \in inputs : config = in[1] /\ tool_output = in[2]
    /\ pc = at
    /\ sensors_json = None
    /\ sensors_data = None
    /\ tables = None
    /\ printed = None
    /\ exit_code = None
    /\ running = FALSE
    /\ event_lock = FALSE
    /\ signalled = FALSE
    /\ live_display = "stopped"
    /\ display = None
    /\ cycle = 0
    /\ renders = 0
    /\ logged = None

\* one-shot mode, at the call of build_sensors_ui
Init == Start({FALSE}, Inputs, "get_sensors_json")

\* monitor_sensors: one-shot mode goes on to build_sensors_ui, live mode
\* enters the Live context and tests the loop condition first
MonitorSensors ==
    /\ pc = "monitor_sensors"
    /\ IF live
       THEN /\ live_display' = "started"
            /\ IF running
               THEN pc' = "exited" /\ exit_code' = Some(0)
               ELSE pc' = "get_sensors_json" /\ UNCHANGED exit_code
       ELSE /\ pc' = "get_sensors_json"
            /\ UNCHANGED <<live_display, exit_code>>
    /\ UNCHANGED <<impl, config, tool_output, sensors_json, sensors_data, tables,
                   printed, live, running, event_lock, signalled, display,
                   cycle, renders, logged>>

\* get_sensors_json: the parsed output, or the error and exit(1); the
\* SystemExit of exit(1) leaves the Live context on its way out
GetSensorsJson ==
    /\ pc = "get_sensors_json"
    /\ cycle' = cycle + 1
    /\ IF tool_output.status = "ok"
       THEN /\ sensors_json' = Some(tool_output.stdout)
            /\ pc' = "parse_sensors_json"
            /\ UNCHANGED <<exit_code, logged, live_display, display>>
       ELSE /\ logged' = Some(tool_output.status)
            /\ pc' = "exited"
            /\ exit_code' = Some(1)
            /\ live_display' = "stopped"
            /\ display' = None
            /\ UNCHANGED sensors_json
    /\ UNCHANGED <<impl, config, tool_output, sensors_data, tables, printed,
                   live, running, event_lock, signalled, renders>>

\* parse_sensors_json: the snapshot, or the ValueError of getboolean, which
\* nothing catches: the traceback and exit status 1
ParseSensorsJson ==
    /\ pc = "parse_sensors_json"
    /\ IF parse_raises(impl, config, Get(sensors_json))
       THEN /\ pc' = "raised"
            /\ exit_code' = Some(1)
            /\ live_display' = "stopped"
            /\ display' = None
            /\ UNCHANGED sensors_data
       ELSE /\ sensors_data' = Some(parse_sensors_json(impl, config, Get(sensors_json)))
            /\ pc' = "build_tables"
            /\ UNCHANGED <<exit_code, live_display, display>>
    /\ UNCHANGED <<impl, config, tool_output, sensors_json, tables, printed,
                   live, running, event_lock, signalled, cycle, renders, logged>>

\* the rest of build_sensors_ui: the four tables
BuildTables ==
    /\ pc = "build_tables"
    /\ tables' = Some(build_tables(Get(sensors_data)))
    /\ pc' = IF live THEN "update" ELSE "print"
    /\ UNCHANGED <<impl, config, tool_output, sensors_json, sensors_data,
                   printed, exit_code, live, running, event_lock, signalled,
                   live_display, display, cycle, renders, logged>>

\* console.print(...) and the return of monitor_sensors
ConsolePrint ==
    /\ pc = "print"
    /\ printed' = tables
    /\ renders' = renders + 1
    /\ pc' = "exited"
    /\ exit_code' = Some(0)
    /\ UNCHANGED <<impl, config, tool_output, sensors_json, sensors_data, tables,
                   live, running, event_lock, signalled, live_display, display,
                   cycle, logged>>

Next == GetSensorsJson \/ ParseSensorsJson \/ BuildTables \/ ConsolePrint

Spec == Init /\ [][Next]_vars

(***************************************************************************)
(* Live mode.  running.wait(refresh_rate) is Event.wait: it takes the      *)
(* Event's lock (a plain Lock inside a Condition), reads the flag, gives   *)
(* the lock up while it is blocked, and takes it again before it returns.  *)
(* running.set() takes the same lock.  A signal handler runs in the main   *)
(* thread between two bytecodes, whatever the main thread is doing.        *)
(***************************************************************************)
\* live.update(build_sensors_ui(lm_config), refresh=True)
LiveUpdate ==
    /\ pc = "update"
    /\ display' = tables
    /\ renders' = renders + 1
    /\ pc' = "wait"
    /\ UNCHANGED <<impl, config, tool_output, sensors_json, sensors_data, tables,
                   printed, exit_code, live, running, event_lock, signalled,
                   live_display, cycle, logged>>

\* Event.wait: "with self._cond:" takes the lock
EventWaitEnter ==
    /\ pc = "wait"
    /\ event_lock' = TRUE
    /\ pc' = "wait_enter"
    /\ UNCHANGED <<impl, config, tool_output, sensors_json, sensors_data, tables,
                   printed, exit_code, live, running, signalled, live_display,
                   display, cycle, renders, logged>>

\* Event.wait: the flag is read; when it is clear, Condition.wait gives the
\* lock up and blocks for the interval
EventWaitBlock ==
    /\ pc = "wait_enter"
    /\ IF running
       THEN pc' = "wait_exit" /\ UNCHANGED event_lock
       ELSE pc' = "wait_blocked" /\ event_lock' = FALSE
    /\ UNCHANGED <<impl, config, tool_output, sensors_json, sensors_data, tables,
                   printed, exit_code, live, running, signalled, live_display,
                   display, cycle, renders, logged>>

\* the interval passes, the readings of the sensors move meanwhile, and
\* Condition.wait takes the lock again
EventWaitTimeout ==
    /\ pc = "wait_blocked"
    /\ tool_output' \in LiveOutputs
    /\ event_lock' = TRUE
    /\ pc' = "wait_exit"
    /\ UNCHANGED <<impl, config, sensors_json, sensors_data, tables, printed,
                   exit_code, live, running, signalled, live_display, display,
                   cycle, renders, logged>>

\* Event.wait returns and gives the lock up; "while not running.is_set()"
\* starts the next cycle, or leaves the Live context and the function
EventWaitReturn ==
    /\ pc = "wait_exit"
    /\ event_lock' = FALSE
    /\ IF running
       THEN /\ pc' = "exited"
            /\ exit_code' = Some(0)
            /\ live_display' = "stopped"
            /\ display' = None
       ELSE /\ cycle < MaxCycles
            /\ pc' = "get_sensors_json"
            /\ UNCHANGED <<exit_code, live_display, display>>
    /\ UNCHANGED <<impl, config, tool_output, sensors_json, sensors_data, tables,
                   printed, live, running, signalled, cycle, renders, logged>>

\* the process has ended, or hangs
Stopped == pc \in {"exited", "raised", "deadlocked"}

\* handle_exit, on SIGINT, SIGTERM or SIGHUP: running.set() and exit(0).
\* running.set() waits for the Event's lock; when the interrupted main
\* thread holds it, the handler never gets it.  Otherwise the SystemExit
\* of exit(0) leaves the Live context on its way out.
HandleExit ==
    /\ ~Stopped
    /\ ~signalled
    /\ signalled' = TRUE
    /\ IF event_lock
       THEN /\ pc' = "deadlocked"
            /\ UNCHANGED <<running, exit_code, live_display, display>>
       ELSE /\ running' = TRUE
            /\ pc' = "exited"
            /\ exit_code' = Some(0)
            /\ live_display' = "stopped"
            /\ display' = None
    /\ UNCHANGED <<impl, config, tool_output, sensors_json, sensors_data, tables,
                   printed, live, event_lock, cycle, renders, logged>>

\* either mode, at the call of monitor_sensors
LiveInit == Start(BOOLEAN, LiveInputs, "monitor_sensors")

LiveNext ==
    \/ MonitorSensors
    \/ GetSensorsJson
    \/ ParseSensorsJson
    \/ BuildTables
    \/ ConsolePrint
    \/ LiveUpdate
    \/ EventWaitEnter
    \/ EventWaitBlock
    \/ EventWaitTimeout
    \/ EventWaitReturn
    \/ HandleExit

LiveSpec == LiveInit /\ [][LiveNext]_vars

(***************************************************************************)
(* Properties of the snapshot.                                             *)
(***************************************************************************)
\* parse_sensors_json has just returned the snapshot
HasSnapshot == pc = "build_tables"

Snapshot == Get(sensors_data)

Raw == Get(sensors_json)

Categories == {"temps", "hdd_temps", "volts", "fans"}

Key(rec) == <<rec.base.chip_id, rec.base.sensor_id>>

Keys(list) == {Key(list[i]) : i \in 1..Len(list)}

\* C1: in each of the four sequences of the snapshot no two records have
\* the same (chip_id, sensor_id), however many raw fields of the sensor's
\* field group went to the category.
C1_OneRecordPerSensor ==
    HasSnapshot =>
        \A cat \in Categories :
            \A i, j \in 1..Len(Snapshot[cat]) :
                i # j => Key(Snapshot[cat][i]) # Key(Snapshot[cat][j])

\* a record that three raw fields of one field group were merged into,
\* beside a record of another chip with the same sensor id
C1_Witness ==
    /\ HasSnapshot
    /\ \E i, j \in 1..Len(Snapshot.temps) :
          /\ Snapshot.temps[i].base.chip_id # Snapshot.temps[j].base.chip_id
          /\ Snapshot.temps[i].base.sensor_id = Snapshot.temps[j].base.sensor_id
          /\ ~IsNone(Snapshot.temps[i].value)
          /\ ~IsNone(Snapshot.temps[i].high)
          /\ ~IsNone(Snapshot.temps[i].critical)

\* the category a raw field of a chip is routed to, None when the prefix
\* or the suffix is not recognised
field_category(chip_id, name) ==
    IF StartsWith(name, <<"temp">>)
    THEN IF is_drive_chip(impl, chip_id)
         THEN IF IsNone(hdd_temp_slot(name)) THEN None ELSE Some("hdd_temps")
         ELSE IF IsNone(temp_slot(name)) THEN None ELSE Some("temps")
    ELSE IF StartsWith(name, <<"fan">>)
    THEN IF IsNone(fan_slot(name)) THEN None ELSE Some("fans")
    ELSE IF StartsWith(name, <<"in">>)
    THEN IF IsNone(volt_slot(name)) THEN None ELSE Some("volts")
    ELSE None

\* the visible (chip_id, sensor_id) pairs of the raw tree whose field group
\* holds at least one field routed to the category
Contributors(cat) ==
    UNION {{<<Raw.items[c][1], Raw.items[c][2].items[q][1]>> :
               q \in {x \in 1..Len(Raw.items[c][2].items) :
                  /\ is_chip_visible(impl, config, Raw.items[c][1])
                  /\ Raw.items[c][2].items[x][2].type = "dict"
                  /\ is_sensoer_visible(impl, config, Raw.items[c][1],
                                        Raw.items[c][2].items[x][1])
                  /\ \E f \in 1..Len(Raw.items[c][2].items[x][2].items) :
                        field_category(Raw.items[c][1],
                            Raw.items[c][2].items[x][2].items[f][1]) = Some(cat)}}
           : c \in 1..Len(Raw.items)}

\* some field group of the raw tree holds a field no category takes
HasIgnoredField ==
    \E c \in 1..Len(Raw.items) :
        \E q \in 1..Len(Raw.items[c][2].items) :
            /\ Raw.items[c][2].items[q][2].type = "dict"
            /\ \E f \in 1..Len(Raw.items[c][2].items[q][2].items) :
                  IsNone(field_category(Raw.items[c][1],
                             Raw.items[c][2].items[q][2].items[f][1]))

\* C2: each sequence has exactly one record for every visible
\* (chip_id, sensor_id) pair whose field group contributes a field to the
\* category, and no other record; fields with an unrecognised prefix or
\* suffix add nothing.
C2_CountMatchesContributors ==
    HasSnapshot =>
        \A cat \in Categories :
            /\ Len(Snapshot[cat]) = Cardinality(Contributors(cat))
            /\ Keys(Snapshot[cat]) = Contributors(cat)

\* several fans counted, with ignored fields in the tree
C2_Witness ==
    /\ HasSnapshot
    /\ HasIgnoredField
    /\ Len(Snapshot.fans) >= 3
    /\ Len(Snapshot.temps) >= 1

\* the chips of the raw tree whose section sets visible to a false value
HiddenChips ==
    {Raw.items[c][1] : c \in {x \in 1..Len(Raw.items) :
        /\ HasOption(config, Raw.items[x][1], <<"visible">>)
        /\ Option(config, Raw.items[x][1], <<"visible">>) \in BooleanFalse}}

\* the raw tree without the chips in H
RECURSIVE without_chips(_, _)
without_chips(items, H) ==
    IF items = <<>> THEN <<>>
    ELSE IF items[1][1] \in H THEN without_chips(Tail(items), H)
         ELSE <<items[1]>> \o without_chips(Tail(items), H)

\* C3: no record of a chip whose section sets visible to false is in any
\* sequence, and the sequences are those of the raw tree without that chip.
C3_HiddenChipRemoved ==
    HasSnapshot =>
        LET without == parse_sensors_json(impl, config,
                           Dict(without_chips(Raw.items, HiddenChips)))
        IN  \A cat \in Categories :
                /\ \A i \in 1..Len(Snapshot[cat]) :
                      Snapshot[cat][i].base.chip_id \notin HiddenChips
                /\ Snapshot[cat] = without[cat]

\* a hidden chip in front of a chip that has records
C3_Witness ==
    /\ HasSnapshot
    /\ Len(Raw.items) = 2
    /\ Raw.items[1][1] \in HiddenChips
    /\ Len(Snapshot.fans) >= 1

\* where a record was discovered: the chip's place in the raw tree, then
\* the field group's place in the chip
ChipIndex(chip_id) == CHOOSE c \in 1..Len(Raw.items) : Raw.items[c][1] = chip_id

SensorIndex(chip_id, sensor_id) ==
    CHOOSE q \in 1..Len(Raw.items[ChipIndex(chip_id)][2].items) :
        Raw.items[ChipIndex(chip_id)][2].items[q][1] = sensor_id

DiscoveredBefore(a, b) ==
    \/ ChipIndex(a.base.chip_id) < ChipIndex(b.base.chip_id)
    \/ /\ a.base.chip_id = b.base.chip_id
       /\ SensorIndex(a.base.chip_id, a.base.sensor_id) <
              SensorIndex(b.base.chip_id, b.base.sensor_id)

\* C5: each sequence is ordered by chip_order ascending, and records of
\* equal chip_order keep the order in which the walk of the raw tree
\* discovered them.
C5_SortedStable ==
    HasSnapshot =>
        \A cat \in Categories :
            \A i, j \in 1..Len(Snapshot[cat]) :
                i < j =>
                    \/ Snapshot[cat][i].base.chip_order < Snapshot[cat][j].base.chip_order
                    \/ /\ Snapshot[cat][i].base.chip_order = Snapshot[cat][j].base.chip_order
                       /\ DiscoveredBefore(Snapshot[cat][i], Snapshot[cat][j])

\* the sort moved a chip in front of an earlier one and kept the records
\* of equal rank in discovery order
C5_Witness ==
    /\ HasSnapshot
    /\ \E i, j \in 1..Len(Snapshot.fans) :
          /\ i < j
          /\ DiscoveredBefore(Snapshot.fans[j], Snapshot.fans[i])
    /\ \E i, j \in 1..Len(Snapshot.fans) :
          /\ i < j
          /\ Snapshot.fans[i].base.chip_order = Snapshot.fans[j].base.chip_order

\* the sensors of a chip of the raw tree that hold a routed field
RoutedSensors(c) ==
    {q \in 1..Len(Raw.items[c][2].items) :
        /\ Raw.items[c][2].items[q][2].type = "dict"
        /\ \E f \in 1..Len(Raw.items[c][2].items[q][2].items) :
              ~IsNone(field_category(Raw.items[c][1],
                          Raw.items[c][2].items[q][2].items[f][1]))}

InSomeSequence(key) == \E cat \in Categories : key \in Keys(Snapshot[cat])

\* C4: when a chip's section has the key hidden_sensors set to a
\* comma-separated list, exactly the sensors of that chip whose id is in
\* the list are absent from every sequence, and every other sensor of the
\* chip still yields its records.
C4_HiddenSensorsKey ==
    HasSnapshot =>
        \A e \in config :
            e[2] = <<"hidden_sensors">> =>
                \A c \in 1..Len(Raw.items) :
                    Raw.items[c][1] = e[1] =>
                        \A q \in RoutedSensors(c) :
                            Contains(split(e[3]), Raw.items[c][2].items[q][1])
                                <=> ~InSomeSequence(<<Raw.items[c][1],
                                                      Raw.items[c][2].items[q][1]>>)

\* the place of a chip in the order core, drive, NVMe, ACPI, everything else
ChipClass(chip_id) ==
    IF StartsWith(chip_id, <<"coretemp", "-">>) THEN 1
    ELSE IF StartsWith(chip_id, <<"drivetemp", "-">>) THEN 2
    ELSE IF StartsWith(chip_id, <<"nvme", "-">>) THEN 3
    ELSE IF StartsWith(chip_id, <<"acpitz", "-">>) THEN 4
    ELSE 5

\* the ranks the records of the snapshot carry, by chip
RankedChips ==
    UNION {{<<Snapshot[cat][i].base.chip_id, Snapshot[cat][i].base.chip_order>> :
               i \in 1..Len(Snapshot[cat])} : cat \in Categories}

\* C6: the ranks order coretemp- chips before drivetemp- chips before
\* nvme- chips before acpitz- chips before every chip matching no rule,
\* and the rank of a chip matching no rule is greater than every rule rank
\* and strictly less than sys.maxsize.
C6_RankOrder ==
    HasSnapshot =>
        /\ \A a, b \in RankedChips :
              ChipClass(a[1]) < ChipClass(b[1]) => a[2] < b[2]
        /\ \A a \in RankedChips :
              ChipClass(a[1]) = 5 =>
                  /\ a[2] < maxsize
                  /\ \A r \in 1..Len(chip_sort_order(impl)) :
                        chip_sort_order(impl)[r][2] < a[2]

\* a chip id with the drive or the NVMe prefix
DriveOrNvme(chip_id) ==
    StartsWith(chip_id, <<"drivetemp">>) \/ StartsWith(chip_id, <<"nvme">>)

\* C7: temp* fields go to the drive-temperature sequence exactly when the
\* chip id has the drivetemp or the nvme prefix, else to the temperature
\* sequence; no chip has records in both.
C7_DriveRouting ==
    HasSnapshot =>
        /\ \A i \in 1..Len(Snapshot.hdd_temps) :
              DriveOrNvme(Snapshot.hdd_temps[i].base.chip_id)
        /\ \A i \in 1..Len(Snapshot.temps) :
              ~DriveOrNvme(Snapshot.temps[i].base.chip_id)
        /\ \A i \in 1..Len(Snapshot.hdd_temps) : \A j \in 1..Len(Snapshot.temps) :
              Snapshot.hdd_temps[i].base.chip_id # Snapshot.temps[j].base.chip_id

\* the value of the last temp* field of a field group with the suffix
last_with_suffix(fields, suffix) ==
    LET hits == {f \in 1..Len(fields) :
                    StartsWith(fields[f][1], <<"temp">>) /\ EndsWith(fields[f][1], suffix)}
    IN  IF hits = {} THEN None
        ELSE Some(fields[CHOOSE f \in hits : \A g \in hits : g <= f][2])

\* the five attributes of a drive-temperature record a field group gives
ExpectedHdd(fields) ==
    [value    |-> last_with_suffix(fields, <<"_input">>),
     high     |-> last_with_suffix(fields, <<"_max">>),
     critical |-> last_with_suffix(fields, <<"_crit">>),
     lowest   |-> last_with_suffix(fields, <<"_lowest">>),
     highest  |-> last_with_suffix(fields, <<"_highest">>)]

HddAttributes(rec) ==
    [value |-> rec.value, high |-> rec.high, critical |-> rec.critical,
     lowest |-> rec.lowest, highest |-> rec.highest]

NoHddAttributes ==
    [value |-> None, high |-> None, critical |-> None, lowest |-> None,
     highest |-> None]

\* C8: a visible field group of a drivetemp chip with fields of the
\* suffixes _input, _max, _crit, _lowest, _highest, in any order, yields
\* exactly one drive-temperature record whose value, high, critical, lowest
\* and highest are the raw values of those fields, an attribute without its
\* field staying None; a group without any of them yields no record.
C8_DriveRecordRoundTrip ==
    HasSnapshot =>
        \A c \in 1..Len(Raw.items) :
            (StartsWith(Raw.items[c][1], <<"drivetemp">>)
                 /\ is_chip_visible(impl, config, Raw.items[c][1])) =>
                \A q \in 1..Len(Raw.items[c][2].items) :
                    (Raw.items[c][2].items[q][2].type = "dict"
                         /\ is_sensoer_visible(impl, config, Raw.items[c][1],
                                               Raw.items[c][2].items[q][1])) =>
                        LET key  == <<Raw.items[c][1], Raw.items[c][2].items[q][1]>>
                            want == ExpectedHdd(Raw.items[c][2].items[q][2].items)
                            recs == {i \in 1..Len(Snapshot.hdd_temps) :
                                        Key(Snapshot.hdd_temps[i]) = key}
                        IN  IF want = NoHddAttributes
                            THEN recs = {}
                            ELSE /\ Cardinality(recs) = 1
                                 /\ \A i \in recs :
                                       HddAttributes(Snapshot.hdd_temps[i]) = want

\* one record with all five attributes, from a group whose fields come in
\* the order _highest, _lowest, _crit, _max, _input
C8_Witness ==
    /\ HasSnapshot
    /\ Len(Snapshot.hdd_temps) = 1
    /\ HddAttributes(Snapshot.hdd_temps[1]) =
          [value |-> Some(1), high |-> Some(2), critical |-> Some(3),
           lowest |-> Some(4), highest |-> Some(5)]
    /\ Raw.items[1][2].items[1][2].items[1][1] = Field("temp", "1", "_highest")

\* the entries of a chip that are mappings
RECURSIVE mappings_only(_)
mappings_only(items) ==
    IF items = <<>> THEN <<>>
    ELSE IF items[1][2].type = "dict"
         THEN <<items[1]>> \o mappings_only(Tail(items))
         ELSE mappings_only(Tail(items))

\* the raw tree without the entries that are not mappings
MappingsOnly(raw) ==
    Dict([c \in 1..Len(raw.items) |->
             <<raw.items[c][1], Dict(mappings_only(raw.items[c][2].items))>>])

\* some entry under a chip of the raw tree is not a mapping
HasNonMapping(raw) ==
    \E c \in 1..Len(raw.items) : \E q \in 1..Len(raw.items[c][2].items) :
        raw.items[c][2].items[q][2].type # "dict"

\* the Adapter text of a chip of the raw tree, None without the entry
AdapterText(chip_id) ==
    LET entries == Raw.items[ChipIndex(chip_id)][2].items
        hits    == {q \in 1..Len(entries) : entries[q][1] = ADAPTER_PROP}
    IN  IF hits = {} THEN None ELSE Some(Format(entries[CHOOSE q \in hits : TRUE][2]))

\* the records with the Adapter text of their chip
with_adapter(list) ==
    [i \in 1..Len(list) |->
        [list[i] EXCEPT !.base.default_chip_label = AdapterText(list[i].base.chip_id)]]

\* C16: for a raw tree with entries under a chip that are not mappings
\* (the Adapter text, a number), parse_sensors_json raises nothing on their
\* account, emits no record for such an entry, records the Adapter text on
\* the chip's records, and classifies the other field groups as if the
\* entries were absent.
C16_NonMappingSkipped ==
    /\ (pc = "raised" /\ HasNonMapping(Raw)) =>
           parse_raises(impl, config, MappingsOnly(Raw))
    /\ (HasSnapshot /\ HasNonMapping(Raw)) =>
           LET without == parse_sensors_json(impl, config, MappingsOnly(Raw))
           IN  /\ \A c \in 1..Len(Raw.items) : \A q \in 1..Len(Raw.items[c][2].items) :
                      Raw.items[c][2].items[q][2].type # "dict" =>
                          ~InSomeSequence(<<Raw.items[c][1], Raw.items[c][2].items[q][1]>>)
               /\ \A cat \in Categories :
                      Snapshot[cat] = with_adapter(without[cat])

\* records with the Adapter text beside records of a chip without it, whose
\* numeric entry gave no record
C16_Witness ==
    /\ HasSnapshot
    /\ \E i, j \in 1..Len(Snapshot.fans) :
          /\ Snapshot.fans[i].base.default_chip_label = Some(<<"ISA adapter">>)
          /\ Snapshot.fans[j].base.default_chip_label = None
          /\ HasKey(Raw.items[ChipIndex(Snapshot.fans[j].base.chip_id)][2].items,
                    <<"rev">>)

(***************************************************************************)
(* Properties of the tables.                                               *)
(***************************************************************************)
\* build_sensors_ui has built the tables
TablesBuilt == pc = "print"

IsRow(e) == e.kind = "row"

\* the rows of a table, none for no table
Rows(table) == IF IsNone(table) THEN <<>> ELSE SelectSeq(Get(table), IsRow)

\* the style of the cell that shows the current reading
ReadingStyle(row) == row.cells[2].style

\* the tier of a temperature: critical from 0.8 * high, warning from
\* 0.6 * high, an absent high never reached
TempTier(value, high) ==
    IF IsNone(value) THEN ""
    ELSE IF IsNone(high) THEN "green"
    ELSE IF 10 * Get(value) >= 8 * Get(high) THEN "bold red"
    ELSE IF 10 * Get(value) >= 6 * Get(high) THEN "yellow"
    ELSE "green"

\* C9: the reading of every row of the temperature tables is empty for an
\* absent value, else critical for value >= 0.8 * high, else warning for
\* value >= 0.6 * high, else normal, and normal for every present value
\* when high is absent; critical has no part in it.
C9_TempTier ==
    TablesBuilt =>
        /\ \A i \in 1..Len(Snapshot.temps) :
              ReadingStyle(Rows(Get(tables).temps)[i]) =
                  TempTier(Snapshot.temps[i].value, Snapshot.temps[i].high)
        /\ \A i \in 1..Len(Snapshot.hdd_temps) :
              ReadingStyle(Rows(Get(tables).hdd_temps)[i]) =
                  TempTier(Snapshot.hdd_temps[i].value, Snapshot.hdd_temps[i].high)

\* the tier of a voltage: warning below min, critical above max, an absent
\* bound never crossed
VoltageTier(value, min, max) ==
    IF IsNone(value) THEN ""
    ELSE IF ~IsNone(min) /\ Get(value) < Get(min) THEN "yellow"
    ELSE IF ~IsNone(max) /\ Get(value) > Get(max) THEN "red"
    ELSE "green"

\* C10: the reading of every row of the voltage table is empty for an
\* absent value, warning below min, critical above max, else normal, an
\* absent min or max being unbounded.
C10_VoltageTier ==
    TablesBuilt =>
        \A i \in 1..Len(Snapshot.volts) :
            ReadingStyle(Rows(Get(tables).volts)[i]) =
                VoltageTier(Snapshot.volts[i].value, Snapshot.volts[i].min,
                            Snapshot.volts[i].max)

\* the sensor ids of the hidden list of a chip's section: none when the
\* list is missing or its value is empty
HiddenList(chip_id) ==
    IF HasOption(config, chip_id, HIDDEN_KEY) /\ Option(config, chip_id, HIDDEN_KEY) # <<>>
    THEN LET pieces == split(Option(config, chip_id, HIDDEN_KEY))
         IN  {pieces[i] : i \in 1..Len(pieces)}
    ELSE {}

\* C14: a sensor is hidden if and only if its id is an element of the
\* hidden list of the chip's section; with the list missing or empty every
\* sensor is visible, the sensor whose id is the empty string included.
C14_HiddenIffListed ==
    HasSnapshot =>
        \A c \in 1..Len(Raw.items) :
            is_chip_visible(impl, config, Raw.items[c][1]) =>
                \A q \in RoutedSensors(c) :
                    InSomeSequence(<<Raw.items[c][1], Raw.items[c][2].items[q][1]>>)
                        <=> Raw.items[c][2].items[q][1] \notin HiddenList(Raw.items[c][1])

\* the place of the i-th row among the entries of a table
RowPos(entries, i) ==
    LET rows == {k \in 1..Len(entries) : IsRow(entries[k])}
    IN  CHOOSE k \in rows : Cardinality({j \in rows : j <= k}) = i

\* a table of a sequence: no table for no record, else a row for each
\* record in sequence order, one separator between two rows whose chip_id
\* differs and none elsewhere
GroupedByChip(table, list) ==
    IF list = <<>> THEN IsNone(table)
    ELSE /\ ~IsNone(table)
         /\ Len(Rows(table)) = Len(list)
         /\ \A i \in 1..Len(list) :
               /\ Rows(table)[i].chip_id = list[i].base.chip_id
               /\ Rows(table)[i].cells[1] = row_label(list[i])
         /\ RowPos(Get(table), 1) = 1
         /\ RowPos(Get(table), Len(list)) = Len(Get(table))
         /\ \A i \in 2..Len(list) :
               RowPos(Get(table), i) - RowPos(Get(table), i - 1) - 1 =
                   IF list[i - 1].base.chip_id # list[i].base.chip_id THEN 1 ELSE 0

\* C15: each of the four tables has one row per record of its sequence in
\* sequence order, a separator between two consecutive rows exactly when
\* their chip_id differs, and no separator before the first row.
C15_SeparatorAtChipChange ==
    TablesBuilt =>
        \A cat \in Categories : GroupedByChip(Get(tables)[cat], Snapshot[cat])

\* the rows of a table at which the chip changes to chip_id
Boundaries(table, chip_id) ==
    {i \in 2..Len(Rows(table)) :
        /\ Rows(table)[i].chip_id = chip_id
        /\ Rows(table)[i - 1].chip_id # chip_id}

\* C18: in every sequence of the snapshot the records of one chip are
\* adjacent, no record of another chip between two of them, so that in a
\* table the rows change to a given chip at most once.
C18_ChipsAdjacent ==
    TablesBuilt =>
        \A cat \in Categories :
            /\ \A i, j, k \in 1..Len(Snapshot[cat]) :
                   (i < j /\ j < k
                      /\ Snapshot[cat][i].base.chip_id = Snapshot[cat][k].base.chip_id)
                       => Snapshot[cat][j].base.chip_id = Snapshot[cat][i].base.chip_id
            /\ \A i \in 1..Len(Snapshot[cat]) :
                   Cardinality(Boundaries(Get(tables)[cat],
                                          Snapshot[cat][i].base.chip_id)) <= 1

\* two chips with several fans each, the sort having moved the records of
\* the chip discovered second in front of those of the first
C18_Witness ==
    /\ TablesBuilt
    /\ \E i, j \in 1..(Len(Snapshot.fans) - 1) :
          /\ i + 1 < j
          /\ Snapshot.fans[i].base.chip_id = Snapshot.fans[i + 1].base.chip_id
          /\ Snapshot.fans[j].base.chip_id = Snapshot.fans[j + 1].base.chip_id
          /\ Snapshot.fans[i].base.chip_id # Snapshot.fans[j].base.chip_id
          /\ DiscoveredBefore(Snapshot.fans[j], Snapshot.fans[i])
    /\ Cardinality(Boundaries(Get(tables).fans, Snapshot.fans[1].base.chip_id)) = 0
    /\ Cardinality(Boundaries(Get(tables).fans,
                               Snapshot.fans[Len(Snapshot.fans)].base.chip_id)) = 1

(***************************************************************************)
(* Properties of the run.                                                  *)
(***************************************************************************)
\* C11: in live mode, whatever step of the cycle a termination signal
\* interrupts (acquire, classify, render, sleep), the process then begins
\* no further acquisition or render, leaves the sleep at once, leaves no
\* snapshot on the display, leaves the Live context and ends with exit
\* code 0.
C11_SignalStopsCleanly ==
    (live /\ signalled) =>
        /\ pc = "exited"
        /\ exit_code = Some(0)
        /\ live_display = "stopped"
        /\ display = None

\* the last acquisition ended in one of the three failures of the tool
FailedAcquisition ==
    /\ tool_output.status # "ok"
    /\ cycle > 0
    /\ pc \notin {"get_sensors_json", "wait_exit"}
    /\ ~signalled

\* the process has terminated
Terminated == pc \in {"exited", "raised"}

\* C12: in either mode, when an acquisition fails (tool missing, failure
\* status, output not parseable) the process reports the error, renders
\* nothing in that cycle, starts no further cycle and terminates with exit
\* code 1; every other termination has exit code 0.
C12_ExitCodes ==
    /\ FailedAcquisition =>
           /\ pc = "exited"
           /\ exit_code = Some(1)
           /\ logged = Some(tool_output.status)
           /\ renders = cycle - 1
           /\ display = None
    /\ (Terminated /\ ~FailedAcquisition) => exit_code = Some(0)

\* the stored text parses as the requested kind
ParsesAs(text, kind) == kind = "str" \/ (kind = "bool" /\ ~NotABoolean(text))

\* the configured value when the section and the key exist and the text
\* parses as the kind, the default in every other case
ConfiguredOrDefault(section, key, kind, default) ==
    IF HasOption(config, section, key) /\ ParsesAs(Option(config, section, key), kind)
    THEN IF kind = "bool"
         THEN Option(config, section, key) \in BooleanTrue
         ELSE Option(config, section, key)
    ELSE default

\* C13: get_config_value gives the configured value when the section and
\* the key exist and the text parses as the requested kind, and the
\* caller's default in every other case, a text that does not parse (such
\* as visible = maybe) included; it never raises.
C13_ConfigValueTotal ==
    /\ pc # "raised"
    /\ HasSnapshot =>
           \A cat \in Categories : \A i \in 1..Len(Snapshot[cat]) :
               LET rec == Snapshot[cat][i].base
               IN  /\ rec.chip_label =
                          ConfiguredOrDefault(rec.chip_id, <<"label">>, "str", rec.chip_id)
                   /\ rec.sensor_label =
                          ConfiguredOrDefault(rec.chip_id, rec.sensor_id, "str",
                                              rec.sensor_id)
                   /\ ConfiguredOrDefault(rec.chip_id, <<"visible">>, "bool", TRUE)

\* the raw tree the acquisition of this cycle returned
Acquired == tool_output.stdout

\* C17: in live mode the snapshot rendered in a cycle is built from the
\* raw tree acquired in that cycle and the configuration alone, so that
\* nothing of an earlier snapshot is in it; each cycle has one acquisition
\* before its one render; the raw tree kept in the snapshot is the
\* acquired tree.
C17_SnapshotFromThisCycle ==
    live =>
        /\ renders <= cycle
        /\ cycle <= renders + 1
        /\ pc \in {"parse_sensors_json", "build_tables", "update"} =>
               /\ cycle = renders + 1
               /\ sensors_json = Some(Acquired)
        /\ pc \in {"build_tables", "update"} =>
               /\ sensors_data = Some(parse_sensors_json(impl, config, Acquired))
               /\ Snapshot.raw_data = Acquired
        /\ pc = "update" =>
               tables = Some(build_tables(parse_sensors_json(impl, config, Acquired)))
        /\ pc = "wait" =>
               /\ cycle = renders
               /\ display = Some(build_tables(parse_sensors_json(impl, config, Acquired)))

\* the second cycle about to render tables that differ from those of the
\* first cycle, still on the display
C17_Witness ==
    /\ live
    /\ pc = "update"
    /\ cycle = 2
    /\ ~IsNone(display)
    /\ display # tables
    /\ Len(Snapshot.fans) >= 1

=============================================================================
